---- MODULE Spec2Model ----
(***************************************************************************)
(* A model of the CalendarManager bot: the guild store (guilds,            *)
(* guildIdToPrefix), its snapshot file, the message router, the command    *)
(* handlers and the identifier resolvers of src/src/index.ts and           *)
(* src/src/util.ts.                                                        *)
(*                                                                         *)
(* A JavaScript string is modelled as a sequence of one-character strings, *)
(* so that startsWith, slice, split and join are computed as the runtime   *)
(* computes them.  null and undefined are the one-element sequences Null   *)
(* and Undefined, which no string of one-character strings equals.         *)
(***************************************************************************)
EXTENDS Integers, Sequences, FiniteSets, TLC

Null == <<"NULL">>
Undefined == <<"UNDEFINED">>

(***************************************************************************)
(* String primitives of the runtime.                                       *)
(***************************************************************************)
Digits == {"0", "1", "2", "3", "4", "5", "6", "7", "8", "9"}

\* `${x}` and the implicit conversion of startsWith's argument
ToStr(x) ==
    IF x = Undefined THEN <<"u", "n", "d", "e", "f", "i", "n", "e", "d">>
    ELSE IF x = Null THEN <<"n", "u", "l", "l">>
    ELSE x

\* String.prototype.startsWith
StartsWith(s, p) ==
    LET q == ToStr(p)
    IN  Len(q) <= Len(s) /\ SubSeq(s, 1, Len(q)) = q

\* String.prototype.slice(start, end): a negative index counts from the end,
\* indices are clamped to [0, length], an empty range gives ''
Slice(s, start, end) ==
    LET n == Len(s)
        from == IF start < 0 THEN (IF n + start < 0 THEN 0 ELSE n + start)
                ELSE (IF start > n THEN n ELSE start)
        to == IF end < 0 THEN (IF n + end < 0 THEN 0 ELSE n + end)
              ELSE (IF end > n THEN n ELSE end)
    IN  IF from >= to THEN <<>> ELSE SubSeq(s, from + 1, to)

\* /^\d+$/.test(s)
IsAllDigits(s) == Len(s) >= 1 /\ \A i \in 1..Len(s) : s[i] \in Digits

\* String.prototype.toLowerCase, on the letters the inputs use
LowerChar(c) ==
    CASE c = "P" -> "p"
      [] c = "I" -> "i"
      [] c = "N" -> "n"
      [] c = "G" -> "g"
      [] c = "M" -> "m"
      [] OTHER -> c

ToLowerCase(s) == [i \in 1..Len(s) |-> LowerChar(s[i])]

\* String.prototype.split(' '): always at least one token, '' between
\* adjacent separators and at either end
RECURSIVE SplitFrom(_, _, _)
SplitFrom(s, i, cur) ==
    IF i > Len(s) THEN <<cur>>
    ELSE IF s[i] = " " THEN <<cur>> \o SplitFrom(s, i + 1, <<>>)
    ELSE SplitFrom(s, i + 1, Append(cur, s[i]))

Split(s) == SplitFrom(s, 1, <<>>)

\* Array.prototype.join(' ')
RECURSIVE Join(_)
Join(tokens) ==
    IF Len(tokens) = 0 THEN <<>>
    ELSE IF Len(tokens) = 1 THEN tokens[1]
    ELSE tokens[1] \o <<" ">> \o Join(Tail(tokens))

(***************************************************************************)
(* Identifier resolvers (src/src/util.ts).  A role catalog is a function   *)
(* from role ids to role names: guild.roles.cache is keyed by role id, and *)
(* guild.roles.fetch(id) gives the role of that id or null.  A channel     *)
(* catalog is a function from channel ids to [name, type].                 *)
(***************************************************************************)

\* guild.roles.fetch(roleId): Role | null (the id of the role found)
RolesFetch(roles, roleId) ==
    IF roleId \in DOMAIN roles THEN roleId ELSE Null

\* guild.roles.cache.get(key): the Collection is keyed by role id
RolesCacheGet(roles, key) ==
    IF key \in DOMAIN roles THEN key ELSE Undefined

\* A mutant of parseRole: the mention is pattern-matched, not validated
parseRoleUnvalidated(roleIdentifier, roles, fetchOk) ==
    IF StartsWith(roleIdentifier, <<"<", "@", "&">>)
    THEN [status |-> "fulfilled",
          value |-> Slice(roleIdentifier, 3, Len(roleIdentifier) - 1)]
    ELSE [status |-> "fulfilled", value |-> Null]

\* parseRole: the settled promise, given whether guild.roles.fetch
\* fulfils (fetchOk) or rejects
parseRole(roleIdentifier, roles, fetchOk) ==
    IF StartsWith(roleIdentifier, <<"<", "@", "&">>)
    THEN LET roleId == Slice(roleIdentifier, 3, Len(roleIdentifier) - 1)
         IN  IF fetchOk
             THEN [status |-> "fulfilled", value |-> RolesFetch(roles, roleId)]
             ELSE [status |-> "rejected", value |-> Null]
    ELSE IF IsAllDigits(roleIdentifier) /\ ~fetchOk
    THEN [status |-> "rejected", value |-> Null]
    ELSE IF IsAllDigits(roleIdentifier)
            /\ RolesFetch(roles, roleIdentifier) # Null
    THEN [status |-> "fulfilled", value |-> RolesFetch(roles, roleIdentifier)]
    ELSE LET result == RolesCacheGet(roles, roleIdentifier)
         IN  [status |-> "fulfilled",
              value |-> IF result = Undefined THEN Null ELSE result]

\* guild.channels.resolve(channelId): the cached channel of that id, or null
ChannelsResolve(channels, channelId) ==
    IF channelId \in DOMAIN channels THEN channelId ELSE Null

\* A mutant of parseTextChannel: the kind of the channel is not checked
parseTextChannelAnyKind(channelIdentifier, channels) ==
    LET channelId ==
            IF StartsWith(channelIdentifier, <<"<", "#">>)
            THEN Slice(channelIdentifier, 2, Len(channelIdentifier) - 1)
            ELSE channelIdentifier
    IN  ChannelsResolve(channels, channelId)

\* parseTextChannel
parseTextChannel(channelIdentifier, channels) ==
    LET channelId ==
            IF StartsWith(channelIdentifier, <<"<", "#">>)
            THEN Slice(channelIdentifier, 2, Len(channelIdentifier) - 1)
            ELSE channelIdentifier
        channel == ChannelsResolve(channels, channelId)
    IN  IF channel = Null \/ channels[channel].type # "text"
        THEN Null
        ELSE channel

(***************************************************************************)
(* Program constants and the environment's inputs.                         *)
(***************************************************************************)
\* DEFAULT_PREFIX = process.env.DEFAULT_PREFIX ?? '~'
DEFAULT_PREFIX == <<"~">>

\* The guilds of the platform, and msg.guild === null (a direct message)
GuildIds == {"g1", "g2"}
NoGuild == "null"

\* discordClient.user.id and the id of another account
BotId == <<"9">>
UserId == <<"5">>

\* The role and channel catalogs the platform can hold for a guild when
\* a command reads them: role 1 exists or has been deleted, and so has the
\* text channel 1
RoleCatalogs == {<<"1">> :> <<"M", "o", "d", "s">>, <<>>}

ChannelCatalogs ==
    { (<<"1">> :> [name |-> <<"g", "e", "n">>, type |-> "text"])
          @@ (<<"2">> :> [name |-> <<"g", "e", "n">>, type |-> "voice"]),
      <<"2">> :> [name |-> <<"g", "e", "n">>, type |-> "voice"] }

\* Bounds of the model
MaxCalendars == 1
MaxInFlight == 1
MaxPending == 2

VARIABLES
    pc,               \* position of startUp().then(setUpListeners)
    file,             \* startUp's local `file`
    disk,             \* the content of SAVE_FILE
    pending,          \* fs.writeFile calls of saveData that have not settled
    guilds,           \* Map<string, GuildData>: entries <<key, reference>> in insertion order
    heap,             \* the GuildData objects: reference -> [id, prefix, calendars]
    guildIdToPrefix,  \* Map<string, string>
    live,             \* keys of discordClient.guilds.cache
    inflight,         \* handleCommand invocations suspended at Promise.allSettled
    out,              \* what the last step did: handler path, replies sent, saveData calls
    probe             \* a resolver call and its result

vars == <<pc, file, disk, pending, guilds, heap, guildIdToPrefix, live, inflight, out, probe>>

(***************************************************************************)
(* Map<string, GuildData> and the objects it refers to.                    *)
(***************************************************************************)
NoRef == 0

MapHas(m, k) == \E i \in 1..Len(m) : m[i][1] = k

\* Map.prototype.get: the reference stored under k, NoRef for undefined
MapGet(m, k) ==
    IF MapHas(m, k) THEN m[CHOOSE i \in 1..Len(m) : m[i][1] = k][2] ELSE NoRef

\* Map.prototype.set: an existing key keeps its position
MapSet(m, k, v) ==
    IF MapHas(m, k)
    THEN [i \in 1..Len(m) |-> IF m[i][1] = k THEN <<k, v>> ELSE m[i]]
    ELSE Append(m, <<k, v>>)

MapKeys(m) == {m[i][1] : i \in 1..Len(m)}

\* guildIdToPrefix.get
PrefixGet(prefixes, k) == IF k \in DOMAIN prefixes THEN prefixes[k] ELSE Undefined

\* guildIdToPrefix.set
PrefixSet(prefixes, k, v) == (k :> v) @@ prefixes

\* A fresh object reference
NewRef(h) == CHOOSE r \in 1..(Cardinality(DOMAIN h) + 1) : r \notin DOMAIN h

\* The references held by the Map, then those held only by suspended
\* invocations, each once
RECURSIVE Distinct(_, _)
Distinct(refs, seen) ==
    IF Len(refs) = 0 THEN seen
    ELSE IF \E i \in 1..Len(seen) : seen[i] = Head(refs)
    THEN Distinct(Tail(refs), seen)
    ELSE Distinct(Tail(refs), Append(seen, Head(refs)))

Referenced(m, fl) ==
    Distinct([i \in 1..Len(m) |-> m[i][2]] \o [i \in 1..Len(fl) |-> fl[i].guildData], <<>>)

\* Objects that nothing references any more are collected, and the
\* references are renumbered in the order of Referenced: an object's address
\* carries no information
Collect(m, h, fl) ==
    LET order == Referenced(m, fl)
        renamed(r) == CHOOSE n \in 1..Len(order) : order[n] = r
    IN  [guilds |-> [i \in 1..Len(m) |-> <<m[i][1], renamed(m[i][2])>>],
         heap |-> [n \in 1..Len(order) |-> h[order[n]]],
         inflight |-> [i \in 1..Len(fl) |-> [fl[i] EXCEPT !.guildData = renamed(@)]]]

\* A mutant of defaultGuildData: the prefix of the new entry is not the default
defaultGuildDataOtherPrefix(id) == [id |-> id, prefix |-> <<"!">>, calendars |-> <<>>]

\* defaultGuildData
defaultGuildData(id) == [id |-> id, prefix |-> DEFAULT_PREFIX, calendars |-> <<>>]

(***************************************************************************)
(* The snapshot file.  Its content is absent, unreadable, not JSON, or the *)
(* JSON text of { guilds: [[key, GuildData], ...] }.                       *)
(***************************************************************************)
Json(entries) == [kind |-> "json", guilds |-> entries]

\* EMPTY_SAVE_DATA = JSON.stringify({ guilds: [] })
EMPTY_SAVE_DATA == Json(<<>>)

\* Stringify, but only the id and the prefix of a guild are written
StringifyWithoutCalendars(m, h) ==
    Json([i \in 1..Len(m) |-> <<m[i][1], [h[m[i][2]] EXCEPT !.calendars = <<>>]>>])

\* JSON.stringify({ guilds: Array.from(guilds.entries()) })
Stringify(m, h) == Json([i \in 1..Len(m) |-> <<m[i][1], h[m[i][2]]>>])

\* new Map(savedData.guilds): one fresh object per entry of the parsed text
RECURSIVE LoadEntries(_, _, _, _)
LoadEntries(entries, i, m, h) ==
    IF i > Len(entries) THEN Collect(m, h, <<>>)
    ELSE LET r == NewRef(h)
         IN  LoadEntries(entries, i + 1, MapSet(m, entries[i][1], r),
                         (r :> entries[i][2]) @@ h)

\* guilds.forEach(guild => guildIdToPrefix.set(guild.id, guild.prefix))
RECURSIVE IndexPrefixes(_, _, _, _)
IndexPrefixes(m, h, i, prefixes) ==
    IF i > Len(m) THEN prefixes
    ELSE IndexPrefixes(m, h, i + 1,
                       PrefixSet(prefixes, h[m[i][2]].id, h[m[i][2]].prefix))

\* The effects of one step that the claims observe
Out(op, g, replies, saves) ==
    [op |-> op, guild |-> g, replies |-> replies, saves |-> saves, settled |-> <<>>]

\* The effects of the continuation of addcalendar's await, with the three
\* results it was run with (parseRoleRes, icalRes.status, channelNameRes)
Resumed(op, g, replies, results) == [Out(op, g, replies, 0) EXCEPT !.settled = results]

Reply(text, args) == [text |-> text, args |-> args]

\* A step that runs no handler of the program, or one that only stores a
\* settled promise
Quiet == Out("quiet", NoGuild, <<>>, 0)

\* saveData(guilds): the write is issued with the text of the store as it is now
SaveData(m, h) ==
    /\ Len(pending) < MaxPending
    /\ pending' = Append(pending, Stringify(m, h))

(***************************************************************************)
(* Initial states: the process starts with some snapshot file (none, one   *)
(* that cannot be read, one that is not JSON, or one an earlier run wrote) *)
(* and the bot is a member of some guilds.                                 *)
(***************************************************************************)
NoProbe == [fn |-> "none", identifier |-> <<>>, roles |-> <<>>, channels |-> <<>>,
            fetchOk |-> TRUE, result |-> Null]

Registration(url, roleId, channelId) == [url |-> url, roleId |-> roleId, channelId |-> channelId]

\* Stores an earlier run can have written
SavedStores ==
    { <<>>,
      << <<"g1", [id |-> "g1", prefix |-> <<"!">>,
                  calendars |-> <<Registration(<<"u">>, <<"1">>, <<"1">>)>>]>> >> }

InitialDisks ==
    {[kind |-> "absent", guilds |-> <<>>],
     [kind |-> "unreadable", guilds |-> <<>>],
     [kind |-> "corrupt", guilds |-> <<>>]}
    \cup {Json(e) : e \in SavedStores}

Init ==
    /\ pc = "readSave"
    /\ file = EMPTY_SAVE_DATA
    /\ disk \in InitialDisks
    /\ pending = <<>>
    /\ guilds = <<>>
    /\ heap = <<>>
    /\ guildIdToPrefix = <<>>
    /\ live \in SUBSET GuildIds
    /\ inflight = <<>>
    /\ out = Out("init", NoGuild, <<>>, 0)
    /\ probe = NoProbe

(***************************************************************************)
(* startUp (src/src/index.ts 36-78) and startUp().then(setUpListeners).    *)
(***************************************************************************)

\* A startUp.readSave that handles every read error as a missing file
StartUpReadSaveLenient ==
    /\ pc = "readSave"
    /\ IF disk.kind \in {"json", "corrupt"}
       THEN file' = disk /\ disk' = disk
       ELSE file' = EMPTY_SAVE_DATA /\ disk' = EMPTY_SAVE_DATA
    /\ pc' = "parseSave"
    /\ out' = Out("startUp.readSave", NoGuild, <<>>, 0)
    /\ UNCHANGED <<pending, guilds, heap, guildIdToPrefix, live, inflight, probe>>

\* startUp.readSave: await fs.readFile; on ENOENT the empty snapshot is
\* written and awaited; any other error, or a failing write, rejects startUp
StartUpReadSave ==
    /\ pc = "readSave"
    /\ \E writeOk \in BOOLEAN :
        IF disk.kind \in {"json", "corrupt"}
        THEN /\ file' = disk
             /\ pc' = "parseSave"
             /\ disk' = disk
        ELSE IF disk.kind = "absent"
        THEN /\ file' = EMPTY_SAVE_DATA
             /\ IF writeOk
                THEN pc' = "parseSave" /\ disk' = EMPTY_SAVE_DATA
                ELSE pc' = "failed" /\ disk' = disk
        ELSE /\ file' = EMPTY_SAVE_DATA
             /\ pc' = "failed"
             /\ disk' = disk
    /\ out' = Out("startUp.readSave", NoGuild, <<>>, 0)
    /\ UNCHANGED <<pending, guilds, heap, guildIdToPrefix, live, inflight, probe>>

\* startUp.parseSave: JSON.parse, new Map, the prefix index, then await login
StartUpParseSave ==
    /\ pc = "parseSave"
    /\ IF file.kind # "json"
       THEN /\ pc' = "failed"
            /\ UNCHANGED <<guilds, heap, guildIdToPrefix>>
       ELSE LET loaded == LoadEntries(file.guilds, 1, <<>>, <<>>)
            IN  /\ guilds' = loaded.guilds
                /\ heap' = loaded.heap
                /\ guildIdToPrefix' =
                       IndexPrefixes(loaded.guilds, loaded.heap, 1, guildIdToPrefix)
                /\ \E loginOk \in BOOLEAN :
                       pc' = IF loginOk THEN "readGuilds" ELSE "failed"
    /\ out' = Out("startUp.parseSave", NoGuild, <<>>, 0)
    /\ UNCHANGED <<file, disk, pending, live, inflight, probe>>

\* ReadGuilds, but every guild of the cache gets a default entry, as in the
\* guildCreate listener
RECURSIVE ReadGuildsOverwriting(_, _, _, _)
ReadGuildsOverwriting(ids, m, h, prefixes) ==
    IF ids = {} THEN [guilds |-> m, heap |-> h, prefixes |-> prefixes]
    ELSE LET id == CHOOSE x \in ids : TRUE
             r == NewRef(h)
         IN  ReadGuildsOverwriting(ids \ {id}, MapSet(m, id, r),
                                   (r :> [id |-> id, prefix |-> DEFAULT_PREFIX,
                                          calendars |-> <<>>]) @@ h,
                                   PrefixSet(prefixes, id, DEFAULT_PREFIX))

\* discordClient.guilds.cache.forEach: a guild without a prefix gets the
\* default prefix and a default entry
RECURSIVE ReadGuilds(_, _, _, _)
ReadGuilds(ids, m, h, prefixes) ==
    IF ids = {} THEN [guilds |-> m, heap |-> h, prefixes |-> prefixes]
    ELSE LET id == CHOOSE x \in ids : TRUE
             r == NewRef(h)
         IN  IF id \in DOMAIN prefixes
             THEN ReadGuilds(ids \ {id}, m, h, prefixes)
             ELSE ReadGuilds(ids \ {id}, MapSet(m, id, r),
                             (r :> [id |-> id, prefix |-> DEFAULT_PREFIX,
                                    calendars |-> <<>>]) @@ h,
                             PrefixSet(prefixes, id, DEFAULT_PREFIX))

\* startUp.readGuilds, saveData(guilds), and then setUpListeners
StartUpReadGuilds ==
    /\ pc = "readGuilds"
    /\ LET synced == ReadGuilds(live, guilds, heap, guildIdToPrefix)
           store == Collect(synced.guilds, synced.heap, inflight)
       IN  /\ guilds' = store.guilds
           /\ heap' = store.heap
           /\ inflight' = store.inflight
           /\ guildIdToPrefix' = synced.prefixes
           /\ SaveData(synced.guilds, synced.heap)
    /\ pc' = "listening"
    /\ out' = Out("startUp.readGuilds", NoGuild, <<>>, 1)
    /\ UNCHANGED <<file, disk, live, probe>>

(***************************************************************************)
(* The guildCreate listener (src/src/index.ts 250-265).  The platform      *)
(* emits guildCreate for a guild that is not in the client's cache; a      *)
(* guild the bot has left is removed from the cache (no listener).         *)
(***************************************************************************)
\* GuildCreate, but the store is replaced by one that holds only the new guild
GuildCreateResetting(g) ==
    /\ pc = "listening"
    /\ g \notin live
    /\ live' = live \cup {g}
    /\ LET r == NewRef(heap)
           h == (r :> defaultGuildData(g)) @@ heap
           m == <<<<g, r>>>>
           store == Collect(m, h, inflight)
       IN  /\ guilds' = store.guilds
           /\ heap' = store.heap
           /\ inflight' = store.inflight
           /\ guildIdToPrefix' = (g :> DEFAULT_PREFIX)
           /\ SaveData(m, h)
    /\ out' = Out("guildCreate", g, <<>>, 1)
    /\ UNCHANGED <<pc, file, disk, probe>>

GuildCreate(g) ==
    /\ pc = "listening"
    /\ g \notin live
    /\ live' = live \cup {g}
    /\ LET r == NewRef(heap)
           h == (r :> defaultGuildData(g)) @@ heap
           m == MapSet(guilds, g, r)
           store == Collect(m, h, inflight)
       IN  /\ guilds' = store.guilds
           /\ heap' = store.heap
           /\ inflight' = store.inflight
           /\ guildIdToPrefix' = PrefixSet(guildIdToPrefix, g, DEFAULT_PREFIX)
           /\ SaveData(m, h)
    /\ out' = Out("guildCreate", g, <<>>, 1)
    /\ UNCHANGED <<pc, file, disk, probe>>

GuildDelete(g) ==
    /\ pc = "listening"
    /\ g \in live
    /\ live' = live \ {g}
    /\ out' = Quiet
    /\ UNCHANGED <<pc, file, disk, pending, guilds, heap, guildIdToPrefix, inflight, probe>>

(***************************************************************************)
(* saveData's fs.writeFile settles (src/src/util.ts 98-103): the file      *)
(* takes the text the call was issued with, or the write fails and the     *)
(* failure is logged.                                                      *)
(***************************************************************************)
RemoveAt(s, i) == SubSeq(s, 1, i - 1) \o SubSeq(s, i + 1, Len(s))

\* WriteSettles, but a write that failed is issued again
WriteSettlesRetrying(i, ok) ==
    /\ i \in 1..Len(pending)
    /\ disk' = IF ok THEN pending[i] ELSE disk
    /\ pending' = IF ok THEN RemoveAt(pending, i)
                  ELSE Append(RemoveAt(pending, i), pending[i])
    /\ out' = IF ok THEN Quiet ELSE Out("saveData.error.write", NoGuild, <<>>, 0)
    /\ UNCHANGED <<pc, file, guilds, heap, guildIdToPrefix, live, inflight, probe>>

\* A write that fails leaves the file as it was or, when it had been opened
\* for writing, cut short; result.catch logs 'saveData.error.write'
WriteSettles(i, ok) ==
    /\ i \in 1..Len(pending)
    /\ IF ok THEN disk' = pending[i]
       ELSE disk' \in {disk, [kind |-> "corrupt", guilds |-> <<>>]}
    /\ pending' = RemoveAt(pending, i)
    /\ out' = IF ok THEN Quiet ELSE Out("saveData.error.write", NoGuild, <<>>, 0)
    /\ UNCHANGED <<pc, file, guilds, heap, guildIdToPrefix, live, inflight, probe>>

(***************************************************************************)
(* handleCommand (src/src/index.ts 80-230).  g is msg.guild's id, or       *)
(* NoGuild when msg.guild === null.                                        *)
(***************************************************************************)
S_ping == <<"p", "i", "n", "g">>
S_prefix == <<"p", "r", "e", "f", "i", "x">>
S_setprefix == <<"s", "e", "t">> \o S_prefix
S_calendars == <<"c", "a", "l", "e", "n", "d", "a", "r", "s">>
S_addcalendar == <<"a", "d", "d", "c", "a", "l", "e", "n", "d", "a", "r">>

NotSettled == [status |-> "pending", value |-> Null]

\* A handler path that only replies
ReplyOnly(op, g, text, args) ==
    /\ out' = Out(op, g, <<Reply(text, args)>>, 0)
    /\ UNCHANGED <<pending, guilds, heap, guildIdToPrefix, inflight>>

CommandPing(g) == ReplyOnly("ping", g, "pong!", <<>>)

CommandPrefix(commandTokens, g) ==
    IF g # NoGuild
    THEN IF Len(commandTokens) = 1
         THEN ReplyOnly("prefix.success", g, "the current prefix is '$1'",
                        <<ToStr(PrefixGet(guildIdToPrefix, g))>>)
         ELSE IF Len(commandTokens) = 2
         THEN ReplyOnly("prefix.error.oneExtraArg", g,
                        "the current prefix is '$1'. Did you mean '$2setprefix'?",
                        <<ToStr(PrefixGet(guildIdToPrefix, g)),
                          ToStr(PrefixGet(guildIdToPrefix, g))>>)
         ELSE ReplyOnly("prefix.error.extraArgs", g, "Invalid usage of '$1prefix'",
                        <<ToStr(PrefixGet(guildIdToPrefix, g))>>)
    ELSE ReplyOnly("prefix.error.guild", g,
                   "This command can only be used within a server.", <<>>)

\* CommandSetPrefix, but a guild without data gets default data
CommandSetPrefixCreating(commandTokens, g) ==
    IF g # NoGuild /\ Len(commandTokens) = 2
    THEN LET r == IF MapGet(guilds, g) # NoRef THEN MapGet(guilds, g) ELSE NewRef(heap)
             h == (r :> [id |-> g, prefix |-> commandTokens[2],
                         calendars |-> IF MapGet(guilds, g) # NoRef
                                       THEN heap[r].calendars ELSE <<>>]) @@ heap
             store == Collect(MapSet(guilds, g, r), h, inflight)
         IN  /\ guilds' = store.guilds
             /\ heap' = store.heap
             /\ inflight' = store.inflight
             /\ guildIdToPrefix' = PrefixSet(guildIdToPrefix, g, commandTokens[2])
             /\ SaveData(MapSet(guilds, g, r), h)
             /\ out' = Out("setprefix.success", g,
                           <<Reply("done! New prefix is '$1'.", <<commandTokens[2]>>)>>, 1)
    ELSE ReplyOnly("setprefix.error", g, "internal error.", <<>>)

\* CommandSetPrefix, but the prefix index is not updated
CommandSetPrefixStoreOnly(commandTokens, g) ==
    IF g # NoGuild /\ Len(commandTokens) = 2 /\ MapGet(guilds, g) # NoRef
    THEN LET h == [heap EXCEPT ![MapGet(guilds, g)].prefix = commandTokens[2]]
         IN  /\ heap' = h
             /\ SaveData(guilds, h)
             /\ out' = Out("setprefix.success", g,
                           <<Reply("done! New prefix is '$1'.", <<commandTokens[2]>>)>>, 1)
             /\ UNCHANGED <<guilds, guildIdToPrefix, inflight>>
    ELSE ReplyOnly("setprefix.error", g, "internal error.", <<>>)

CommandSetPrefix(commandTokens, g) ==
    IF g # NoGuild
    THEN IF Len(commandTokens) = 2
         THEN LET newPrefix == commandTokens[2]
                  msgGuildData == MapGet(guilds, g)
              IN  IF msgGuildData # NoRef
                  THEN LET h == [heap EXCEPT ![msgGuildData].prefix = newPrefix]
                       IN  /\ heap' = h
                           /\ guildIdToPrefix' =
                                  PrefixSet(guildIdToPrefix, heap[msgGuildData].id, newPrefix)
                           /\ SaveData(guilds, h)
                           /\ out' = Out("setprefix.success", g,
                                         <<Reply("done! New prefix is '$1'.", <<newPrefix>>)>>, 1)
                           /\ UNCHANGED <<guilds, inflight>>
                  ELSE ReplyOnly("setPrefix.error.internal", g, "internal error.", <<>>)
         ELSE ReplyOnly("setprefix.error.usage", g,
                        "the usage of this command is '$1setprefix <new prefix>'",
                        <<ToStr(PrefixGet(guildIdToPrefix, g))>>)
    ELSE ReplyOnly("setprefix.error.guild", g,
                   "This command can only be used within a server.", <<>>)

\* The line feed character
LF == "LF"

\* calendars.reduce((accumulator, current) => accumulator + current.url + LF, '')
RECURSIVE ReplyString(_)
ReplyString(calendars) ==
    IF Len(calendars) = 0 THEN <<>>
    ELSE calendars[1].url \o <<LF>> \o ReplyString(Tail(calendars))

\* CommandCalendars, but the usage reply shows the default prefix
CommandCalendarsDefaultPrefix(commandTokens, g) ==
    IF g # NoGuild /\ Len(commandTokens) # 1
    THEN ReplyOnly("calendars.error.usage", g,
                   "the usage of this comand is '$1calendars'", <<DEFAULT_PREFIX>>)
    ELSE IF g # NoGuild /\ MapGet(guilds, g) # NoRef
    THEN IF Len(heap[MapGet(guilds, g)].calendars) # 0
         THEN ReplyOnly("calendars.success", g,
                        "The calendars currently registered in this guild are: $1",
                        <<ReplyString(heap[MapGet(guilds, g)].calendars)>>)
         ELSE ReplyOnly("calendars.error.noCalendars", g,
                        "this server doesn't have any calendars registered yet.", <<>>)
    ELSE ReplyOnly("calendars.error", g,
                   "This command can only be used within a server.", <<>>)

CommandCalendars(commandTokens, g) ==
    IF g # NoGuild
    THEN IF Len(commandTokens) = 1
         THEN IF MapGet(guilds, g) # NoRef
              THEN LET calendars == heap[MapGet(guilds, g)].calendars
                   IN  IF Len(calendars) # 0
                       THEN ReplyOnly("calendars.success", g,
                                "The calendars currently registered in this guild are: $1",
                                <<ReplyString(calendars)>>)
                       ELSE ReplyOnly("calendars.error.noCalendars", g,
                                "this server doesn't have any calendars registered yet.", <<>>)
              ELSE ReplyOnly("calendars.error.internal", g,
                             "there was an internal error executing your command.", <<>>)
         ELSE ReplyOnly("calendars.error.usage", g,
                        "the usage of this comand is '$1calendars'",
                        <<ToStr(PrefixGet(guildIdToPrefix, g))>>)
    ELSE ReplyOnly("calendars.error.guild", g,
                   "This command can only be used within a server.", <<>>)

\* The suspended invocations that hold the object r
Holding(r) == Cardinality({i \in 1..Len(inflight) : inflight[i].guildData = r})

\* What an addcalendar invocation holds while it is suspended: its
\* arguments, the GuildData it read, and the two promises
Invocation(commandTokens, g, guildData) ==
    [guild |-> g,
     guildData |-> guildData,
     calUrl |-> commandTokens[2],
     channelIdentifier |-> commandTokens[3],
     roleIdentifier |-> Join(SubSeq(commandTokens, 4, Len(commandTokens))),
     parseRolePromise |-> NotSettled,
     icalPromise |-> NotSettled]

\* addcalendar up to 'await Promise.allSettled([parseRolePromise, icalPromise])'
CommandAddCalendar(commandTokens, g) ==
    IF g # NoGuild
    THEN IF Len(commandTokens) >= 4
         THEN LET guildData == MapGet(guilds, g)
              IN  IF guildData # NoRef
                  THEN /\ Len(inflight) < MaxInFlight
                       /\ Len(heap[guildData].calendars) + Holding(guildData) < MaxCalendars
                       /\ inflight' = Append(inflight, Invocation(commandTokens, g, guildData))
                       /\ out' = Out("addcalendar.await", g, <<>>, 0)
                       /\ UNCHANGED <<pending, guilds, heap, guildIdToPrefix>>
                  ELSE ReplyOnly("addcalendar.error.internal", g,
                                 "there was an internal error executing your command.", <<>>)
         ELSE ReplyOnly("addcalendar.error.usage", g,
                  "the usage of this command is '$1addcalendar <ical URL> <channel name or #mention> <roleId, mention, or name>'",
                  <<ToStr(PrefixGet(guildIdToPrefix, g))>>)
    ELSE ReplyOnly("addcalendar.error.guild", g,
                   "this command can only be used within a server.", <<>>)

\* handleCommand, but a command waits while an addcalendar is suspended
handleCommandSerialized(commandTokens, g) ==
    IF inflight # <<>>
    THEN /\ out' = Out("message.queued", g, <<>>, 0)
         /\ UNCHANGED <<pending, guilds, heap, guildIdToPrefix, inflight>>
    ELSE IF ToLowerCase(commandTokens[1]) = S_ping THEN CommandPing(g)
    ELSE IF ToLowerCase(commandTokens[1]) = S_prefix THEN CommandPrefix(commandTokens, g)
    ELSE IF ToLowerCase(commandTokens[1]) = S_setprefix THEN CommandSetPrefix(commandTokens, g)
    ELSE IF ToLowerCase(commandTokens[1]) = S_calendars THEN CommandCalendars(commandTokens, g)
    ELSE IF ToLowerCase(commandTokens[1]) = S_addcalendar
    THEN CommandAddCalendar(commandTokens, g)
    ELSE ReplyOnly("error.invalid", g, "invalid command!", <<>>)

\* commandTokens[0].toLowerCase() of an empty list is a TypeError, which
\* rejects the promise of the async function before anything is done
handleCommand(commandTokens, g) ==
    IF commandTokens = <<>>
    THEN /\ out' = Out("handleCommand.error.typeError", g, <<>>, 0)
         /\ UNCHANGED <<pending, guilds, heap, guildIdToPrefix, inflight>>
    ELSE LET command == ToLowerCase(commandTokens[1])
         IN  IF command = S_ping THEN CommandPing(g)
             ELSE IF command = S_prefix THEN CommandPrefix(commandTokens, g)
             ELSE IF command = S_setprefix THEN CommandSetPrefix(commandTokens, g)
             ELSE IF command = S_calendars THEN CommandCalendars(commandTokens, g)
             ELSE IF command = S_addcalendar THEN CommandAddCalendar(commandTokens, g)
             ELSE ReplyOnly("error.invalid", g, "invalid command!", <<>>)

(***************************************************************************)
(* addcalendar after `await Promise.allSettled` (index.ts 184-208).  fl is *)
(* the suspended invocations with invocation i settled; channels is the    *)
(* guild's channel cache when the invocation resumes.                      *)
(***************************************************************************)
\* Failure, but the result of the calendar fetch is not looked at
FailureIgnoringCalendar(parseRoleRes, icalRes, channelNameRes) ==
    IF parseRoleRes.status = "rejected" \/ parseRoleRes.value = Null
    THEN "addcalendar.error.parseRole"
    ELSE IF channelNameRes = Null
    THEN "addcalendar.error.findChannel"
    ELSE "none"

\* Failure, but the channel is tested before the calendar
FailureChannelFirst(parseRoleRes, icalRes, channelNameRes) ==
    IF parseRoleRes.status = "rejected" \/ parseRoleRes.value = Null
    THEN "addcalendar.error.parseRole"
    ELSE IF channelNameRes = Null
    THEN "addcalendar.error.findChannel"
    ELSE IF icalRes.status = "rejected"
    THEN "addcalendar.error.parseCal"
    ELSE "none"

\* The failure the continuation answers with, in the order it tests them
\* (src/src/index.ts 188-202), or "none"
Failure(parseRoleRes, icalRes, channelNameRes) ==
    IF parseRoleRes.status = "rejected" \/ parseRoleRes.value = Null
    THEN "addcalendar.error.parseRole"
    ELSE IF icalRes.status = "rejected"
    THEN "addcalendar.error.parseCal"
    ELSE IF channelNameRes = Null
    THEN "addcalendar.error.findChannel"
    ELSE "none"

\* AddCalendarResume, but a registration the list already holds is not added
AddCalendarResumeOnce(fl, i, channels) ==
    LET inv == fl[i]
        channelNameRes == parseTextChannel(inv.channelIdentifier, channels)
        failure == Failure(inv.parseRolePromise, inv.icalPromise, channelNameRes)
        registration == Registration(inv.calUrl, inv.parseRolePromise.value, channelNameRes)
        known == \E n \in 1..Len(heap[inv.guildData].calendars) :
                     heap[inv.guildData].calendars[n] = registration
        pushed == IF failure # "none" \/ known THEN heap
                  ELSE [heap EXCEPT ![inv.guildData].calendars = Append(@, registration)]
        store == Collect(guilds, pushed, RemoveAt(fl, i))
    IN  /\ out' = Resumed(IF failure # "none" THEN failure ELSE "addcalendar.registered",
                          inv.guild,
                          IF failure # "none" THEN <<Reply("failed", <<>>)>> ELSE <<>>,
                          <<inv.parseRolePromise, inv.icalPromise.status, channelNameRes>>)
        /\ guilds' = store.guilds
        /\ heap' = store.heap
        /\ inflight' = store.inflight

AddCalendarResume(fl, i, channels) ==
    LET inv == fl[i]
        parseRoleRes == inv.parseRolePromise
        icalRes == inv.icalPromise
        channelNameRes == parseTextChannel(inv.channelIdentifier, channels)
        failure == Failure(parseRoleRes, icalRes, channelNameRes)
        rest == RemoveAt(fl, i)
        pushed == [heap EXCEPT ![inv.guildData].calendars =
                      Append(@, Registration(inv.calUrl, parseRoleRes.value,
                                             channelNameRes))]
        kept == Collect(guilds, heap, rest)
        committed == Collect(guilds, pushed, rest)
        results == <<parseRoleRes, icalRes.status, channelNameRes>>
    IN  IF failure # "none"
        THEN /\ out' = Resumed(failure, inv.guild,
                           <<CASE failure = "addcalendar.error.parseRole" ->
                                      Reply("role '$1' could not be parsed",
                                            <<inv.roleIdentifier>>)
                               [] failure = "addcalendar.error.parseCal" ->
                                      Reply("the provided calendar could not be parsed as an ICS",
                                            <<>>)
                               [] OTHER ->
                                      Reply("the provided text channel could not be found.",
                                            <<>>)>>, results)
             /\ guilds' = kept.guilds
             /\ heap' = kept.heap
             /\ inflight' = kept.inflight
        ELSE /\ out' = Resumed("addcalendar.registered", inv.guild, <<>>, results)
             /\ guilds' = committed.guilds
             /\ heap' = committed.heap
             /\ inflight' = committed.inflight

(***************************************************************************)
(* The two branches of Promise.allSettled settle, in either order.  roles  *)
(* is the guild's role catalog when guild.roles.fetch answers.  When the   *)
(* second branch settles, the continuation of the await runs in the same   *)
(* turn of the event loop, before any other event is handled.              *)
(***************************************************************************)
\* Settled, but the first rejection ends the wait (as Promise.all would)
SettledShortCircuit(fl, i, channels) ==
    IF \/ fl[i].parseRolePromise.status # "pending" /\ fl[i].icalPromise.status # "pending"
       \/ fl[i].parseRolePromise.status = "rejected"
       \/ fl[i].icalPromise.status = "rejected"
    THEN AddCalendarResume(fl, i, channels)
    ELSE /\ inflight' = fl
         /\ out' = Quiet
         /\ UNCHANGED <<guilds, heap>>

Settled(fl, i, channels) ==
    IF fl[i].parseRolePromise.status # "pending" /\ fl[i].icalPromise.status # "pending"
    THEN AddCalendarResume(fl, i, channels)
    ELSE /\ inflight' = fl
         /\ out' = Quiet
         /\ UNCHANGED <<guilds, heap>>

ParseRoleSettles(i, roles, fetchOk, channels) ==
    /\ i \in 1..Len(inflight)
    /\ inflight[i].parseRolePromise.status = "pending"
    /\ Settled([inflight EXCEPT ![i].parseRolePromise =
                   parseRole(inflight[i].roleIdentifier, roles, fetchOk)], i, channels)
    /\ UNCHANGED <<pc, file, disk, pending, guildIdToPrefix, live, probe>>

IcalSettles(i, ok, channels) ==
    /\ i \in 1..Len(inflight)
    /\ inflight[i].icalPromise.status = "pending"
    /\ Settled([inflight EXCEPT ![i].icalPromise =
                   [status |-> IF ok THEN "fulfilled" ELSE "rejected", value |-> Null]],
               i, channels)
    /\ UNCHANGED <<pc, file, disk, pending, guildIdToPrefix, live, probe>>

(***************************************************************************)
(* The message listener (src/src/index.ts 233-248).                        *)
(***************************************************************************)
\* '<@${discordClient.user?.id}> ' and '<@!${discordClient.user?.id}> '
Mention == <<"<", "@">> \o BotId \o <<">", " ">>
NickMention == <<"<", "@", "!">> \o BotId \o <<">", " ">>

\* OnMessage, but the author of the message is not looked at
OnMessageAnyAuthor(g, authorId, content) ==
    /\ pc = "listening"
    /\ g \in live \cup {NoGuild}
    /\ LET prefix == IF g = NoGuild THEN <<>> ELSE PrefixGet(guildIdToPrefix, g)
           startsWithPrefix == StartsWith(content, prefix)
           startsWithMention ==
               StartsWith(content, Mention) \/ StartsWith(content, NickMention)
       IN  IF (startsWithPrefix /\ prefix # Undefined) \/ (~startsWithPrefix /\ startsWithMention)
           THEN LET tokens == Split(content)
                    commandTokens ==
                        IF startsWithPrefix
                        THEN [tokens EXCEPT ![1] = Slice(@, Len(prefix), Len(@))]
                        ELSE Tail(tokens)
                IN  handleCommand(commandTokens, g)
           ELSE /\ out' = Out("message.ignored", g, <<>>, 0)
                /\ UNCHANGED <<pending, guilds, heap, guildIdToPrefix, inflight>>
    /\ UNCHANGED <<pc, file, disk, live, probe>>

\* CommandTokens, but empty tokens are dropped
CommandTokensNoEmpty(content, prefix, startsWithPrefix) ==
    LET tokens == Split(content)
        cut == IF startsWithPrefix
               THEN [tokens EXCEPT ![1] = Slice(@, Len(prefix), Len(@))]
               ELSE Tail(tokens)
    IN  SelectSeq(cut, LAMBDA t : t # <<>>)

\* The tokens the listener passes to handleCommand: content.split(' ') with
\* the prefix sliced off the first token or, for a mention, without the
\* first token
CommandTokens(content, prefix, startsWithPrefix) ==
    LET tokens == Split(content)
    IN  IF startsWithPrefix
        THEN [tokens EXCEPT ![1] = Slice(@, Len(prefix), Len(@))]
        ELSE Tail(tokens)

OnMessage(g, authorId, content) ==
    /\ pc = "listening"
    /\ g \in live \cup {NoGuild}
    /\ LET prefix == IF g = NoGuild THEN <<>> ELSE PrefixGet(guildIdToPrefix, g)
           startsWithPrefix == StartsWith(content, prefix)
           startsWithMention ==
               StartsWith(content, Mention) \/ StartsWith(content, NickMention)
           accepted == authorId # BotId /\ (startsWithPrefix \/ startsWithMention)
           \* prefix.length of undefined: the listener throws a TypeError, and
           \* the caller of the emitter decides whether the process survives
           throws == accepted /\ startsWithPrefix /\ prefix = Undefined
           commandTokens == CommandTokens(content, prefix, startsWithPrefix)
           \* a rejection of handleCommand's promise is handled nowhere
           rejects == accepted /\ ~throws /\ commandTokens = <<>>
       IN  /\ IF throws
              THEN /\ out' = Out("message.error.typeError", g, <<>>, 0)
                   /\ UNCHANGED <<pending, guilds, heap, guildIdToPrefix, inflight>>
              ELSE IF accepted
              THEN handleCommand(commandTokens, g)
              ELSE /\ out' = Out("message.ignored", g, <<>>, 0)
                   /\ UNCHANGED <<pending, guilds, heap, guildIdToPrefix, inflight>>
           /\ IF throws \/ rejects THEN pc' \in {"listening", "crashed"} ELSE pc' = pc
    /\ UNCHANGED <<file, disk, live, probe>>

(***************************************************************************)
(* The environment of Spec.  A member of a guild writes a command with the *)
(* guild's current prefix, or with a mention of the bot; in a direct       *)
(* message the command is written bare.  The bot's own replies come back   *)
(* as messages too.  An event is delivered when the writes that the        *)
(* previous ones issued have settled, and in this environment every write  *)
(* succeeds: after startUp no handler reads SAVE_FILE, so neither the      *)
(* order nor the outcome of the writes changes what the handlers do.       *)
(***************************************************************************)
GoodCalendar ==
    Join(<<S_addcalendar, <<"u">>, <<"<", "#", "1", ">">>, <<"<", "@", "&", "1", ">">>>>)

SetPrefixBang == Join(<<S_setprefix, <<"!">>>>)

Bodies == {S_calendars, S_addcalendar, GoodCalendar}

\* The guild whose members register calendars
Registering == {"g1"}

Written(g, body) ==
    IF g = NoGuild THEN body ELSE ToStr(PrefixGet(guildIdToPrefix, g)) \o body

Delivered == pending = <<>>

Next ==
    \/ StartUpReadSave
    \/ StartUpParseSave
    \/ StartUpReadGuilds
    \/ Delivered /\ \E g \in GuildIds : GuildCreate(g)
    \/ Delivered /\ \E g \in GuildIds : GuildDelete(g)
    \/ Delivered /\ \E g \in GuildIds : OnMessage(g, UserId, Written(g, SetPrefixBang))
    \/ Delivered /\ \E g \in Registering, body \in Bodies :
           OnMessage(g, UserId, Written(g, body))
    \/ Delivered /\ OnMessage(NoGuild, UserId, Written(NoGuild, GoodCalendar))
    \/ Delivered /\ \E g \in Registering : OnMessage(g, UserId, Mention \o GoodCalendar)
    \/ Delivered /\ \E g \in Registering : OnMessage(g, BotId, Written(g, GoodCalendar))
    \/ Delivered /\ \E i \in 1..MaxInFlight, roles \in RoleCatalogs, fetchOk \in BOOLEAN,
                       channels \in ChannelCatalogs :
           ParseRoleSettles(i, roles, fetchOk, channels)
    \/ Delivered /\ \E i \in 1..MaxInFlight, ok \in BOOLEAN, channels \in ChannelCatalogs :
           IcalSettles(i, ok, channels)
    \/ \E i \in 1..MaxPending : WriteSettles(i, TRUE)

Spec == Init /\ [][Next]_vars

(***************************************************************************)
(* Claims about the store, checked under Spec.                             *)
(***************************************************************************)
\* The calendar list the store holds for guild g
Calendars(m, h, g) == IF MapHas(m, g) THEN h[MapGet(m, g)].calendars ELSE <<>>

Running == pc \in {"readGuilds", "listening"}

\* C1: after startup the guild map and the prefix index have the same guild
\* ids, and for each of them the prefix of the guild's data equals the
\* prefix of the index.
C1_PrefixIndexInSync ==
    pc = "listening"
    => /\ MapKeys(guilds) = DOMAIN guildIdToPrefix
       /\ \A g \in MapKeys(guilds) : heap[MapGet(guilds, g)].prefix = guildIdToPrefix[g]

\* A setprefix command has changed the prefix of a guild while another guild
\* of the store keeps the default one
C1_Witness ==
    /\ pc = "listening"
    /\ out.op = "setprefix.success"
    /\ guildIdToPrefix[out.guild] = <<"!">>
    /\ heap[MapGet(guilds, out.guild)].prefix = <<"!">>
    /\ \E g \in MapKeys(guilds) : guildIdToPrefix[g] = DEFAULT_PREFIX

AllResolved(parseRoleRes, icalRes, channelNameRes) ==
    /\ parseRoleRes.status = "fulfilled"
    /\ parseRoleRes.value # Null
    /\ icalRes.status = "fulfilled"
    /\ channelNameRes # Null

ListsUnchanged ==
    \A g \in GuildIds : Calendars(guilds', heap', g) = Calendars(guilds, heap, g)

ResumeOps ==
    {"addcalendar.error.parseRole", "addcalendar.error.parseCal",
     "addcalendar.error.findChannel", "addcalendar.registered"}

\* C2: when an addcalendar invocation resumes with a role resolution, a
\* calendar fetch or a channel resolution that failed, every guild's calendar
\* list is left as it was, whatever the other two gave; a list changes in
\* such a step only if all three succeeded.
C2_NoPartialCommit ==
    [][out'.op \in ResumeOps
       => \/ ListsUnchanged
          \/ /\ \A i \in 1..Len(inflight), roles \in RoleCatalogs, fetchOk \in BOOLEAN,
                   channels \in ChannelCatalogs :
                    ParseRoleSettles(i, roles, fetchOk, channels)
                    => AllResolved(parseRole(inflight[i].roleIdentifier, roles, fetchOk),
                                   inflight[i].icalPromise,
                                   parseTextChannel(inflight[i].channelIdentifier, channels))
             /\ \A i \in 1..Len(inflight), ok \in BOOLEAN, channels \in ChannelCatalogs :
                    IcalSettles(i, ok, channels)
                    => AllResolved(inflight[i].parseRolePromise,
                                   [status |-> IF ok THEN "fulfilled" ELSE "rejected"],
                                   parseTextChannel(inflight[i].channelIdentifier, channels))]_vars

\* An invocation whose role and channel resolved has been answered with the
\* calendar failure, and the guild has no calendar
C2_Witness ==
    /\ out.op = "addcalendar.error.parseCal"
    /\ Calendars(guilds, heap, out.guild) = <<>>

\* C3: every step of the running program that changes the store issues, in
\* that step, a write of the whole store as it is after the step.
C3_MutationPersists ==
    [][(Running /\ Stringify(guilds', heap') # Stringify(guilds, heap))
       => /\ Len(pending') = Len(pending) + 1
          /\ pending'[Len(pending')] = Stringify(guilds', heap')]_vars

AddCalendarEndings ==
    ResumeOps \cup {"addcalendar.error.usage", "addcalendar.error.guild",
                    "addcalendar.error.internal"}

\* C4: every addcalendar invocation that ends, on any of its paths, has sent
\* exactly one reply.
C4_OneReply == out.op \in AddCalendarEndings => Len(out.replies) = 1

\* C5: a registration that succeeds is appended to the calendar list that the
\* store holds for the guild when the invocation resumes.
C5_CommitsToStoredConfig ==
    [][out'.op = "addcalendar.registered"
       => LET old == Calendars(guilds, heap, out'.guild)
              new == Calendars(guilds', heap', out'.guild)
          IN  /\ Len(new) = Len(old) + 1
              /\ SubSeq(new, 1, Len(old)) = old]_vars

\* C6: in every step of the running program each guild's calendar list stays
\* as it is or, in a successful registration, gets one entry appended.
C6_CalendarsOnlyGrow ==
    [][Running
       => \A g \in GuildIds :
              LET old == Calendars(guilds, heap, g)
                  new == Calendars(guilds', heap', g)
              IN  \/ new = old
                  \/ /\ out'.op = "addcalendar.registered"
                     /\ Len(new) = Len(old) + 1
                     /\ SubSeq(new, 1, Len(old)) = old]_vars

\* C7: handling the join of a guild that has data in the store keeps that
\* data (same prefix, same calendars) and leaves one entry for the guild;
\* default data is created only for a guild that had none.
C7_JoinKeepsExisting ==
    [][(out'.op = "guildCreate" /\ MapHas(guilds, out'.guild))
       => /\ heap'[MapGet(guilds', out'.guild)] = heap[MapGet(guilds, out'.guild)]
          /\ Cardinality({i \in 1..Len(guilds') : guilds'[i][1] = out'.guild}) = 1]_vars

RoleFailed(parseRoleRes) == parseRoleRes.status = "rejected" \/ parseRoleRes.value = Null

\* C11: the one failure reply of an addcalendar invocation names the first
\* failure in the order role, calendar, channel: the role failure whatever
\* the other two gave, the calendar failure only if the role resolved, the
\* channel failure only if the role resolved and the calendar was fetched.
C11_FirstFailureReported ==
    out.op \in ResumeOps
    => LET role == out.settled[1]
           ical == out.settled[2]
           channel == out.settled[3]
       IN  /\ RoleFailed(role)
              <=> /\ out.op = "addcalendar.error.parseRole"
                  /\ out.replies = <<Reply("role '$1' could not be parsed", out.replies[1].args)>>
           /\ (~RoleFailed(role) /\ ical = "rejected")
              <=> /\ out.op = "addcalendar.error.parseCal"
                  /\ out.replies =
                         <<Reply("the provided calendar could not be parsed as an ICS", <<>>)>>
           /\ (~RoleFailed(role) /\ ical = "fulfilled" /\ channel = Null)
              <=> /\ out.op = "addcalendar.error.findChannel"
                  /\ out.replies =
                         <<Reply("the provided text channel could not be found.", <<>>)>>

\* All three resolutions of an invocation have failed and the reply names
\* the role, or calendar and channel have failed and it names the calendar
C11_Witness ==
    /\ out.op \in ResumeOps
    /\ out.settled[2] = "rejected"
    /\ out.settled[3] = Null
    /\ \/ RoleFailed(out.settled[1]) /\ out.op = "addcalendar.error.parseRole"
       \/ ~RoleFailed(out.settled[1]) /\ out.op = "addcalendar.error.parseCal"

IsPending(promise) == promise.status = "pending"

\* C12: an addcalendar invocation starts role resolution and calendar fetch
\* together and suspends with both pending; the step in which the first of
\* them settles, failed or not, sends no reply, commits nothing and leaves
\* the other pending; a settled result stays as it is until the invocation
\* resumes, which happens only in the step in which the second one settles,
\* and with the result the first one gave.
C12_BothSettleFirst ==
    /\ [](\A i \in 1..Len(inflight) :
              IsPending(inflight[i].parseRolePromise) \/ IsPending(inflight[i].icalPromise))
    /\ [][/\ out'.op = "addcalendar.await"
             => /\ Len(inflight') = Len(inflight) + 1
                /\ IsPending(inflight'[Len(inflight')].parseRolePromise)
                /\ IsPending(inflight'[Len(inflight')].icalPromise)
                /\ out'.replies = <<>>
                /\ Stringify(guilds', heap') = Stringify(guilds, heap)
          /\ out'.op \in ResumeOps
             => \E i \in 1..Len(inflight) :
                    /\ Len(inflight') = Len(inflight) - 1
                    /\ \/ /\ ~IsPending(inflight[i].parseRolePromise)
                          /\ IsPending(inflight[i].icalPromise)
                          /\ out'.settled[1] = inflight[i].parseRolePromise
                       \/ /\ ~IsPending(inflight[i].icalPromise)
                          /\ IsPending(inflight[i].parseRolePromise)
                          /\ out'.settled[2] = inflight[i].icalPromise.status
          /\ (out'.op \notin ResumeOps /\ Len(inflight') = Len(inflight))
             => /\ \A i \in 1..Len(inflight) :
                       /\ ~IsPending(inflight[i].parseRolePromise)
                          => inflight'[i].parseRolePromise = inflight[i].parseRolePromise
                       /\ ~IsPending(inflight[i].icalPromise)
                          => inflight'[i].icalPromise = inflight[i].icalPromise
                /\ (\E i \in 1..Len(inflight) :
                        \/ IsPending(inflight[i].parseRolePromise)
                               /\ ~IsPending(inflight'[i].parseRolePromise)
                        \/ IsPending(inflight[i].icalPromise)
                               /\ ~IsPending(inflight'[i].icalPromise))
                   => /\ out' = Quiet
                      /\ Stringify(guilds', heap') = Stringify(guilds, heap)]_vars

\* The calendar fetch of an invocation has failed, its role resolution is
\* still running, and nothing has been replied
C12_Witness ==
    /\ out = Quiet
    /\ \E i \in 1..Len(inflight) :
           /\ inflight[i].icalPromise.status = "rejected"
           /\ IsPending(inflight[i].parseRolePromise)

(***************************************************************************)
(* SpecRouter: the message listener and the command handlers under every   *)
(* way of addressing the bot and every argument count.  The bot starts as  *)
(* in Spec; members and the bot itself then write messages in the guilds   *)
(* and in direct messages.  A guild can also enter the client's cache      *)
(* without a guildCreate event (the client adds the guilds of a READY      *)
(* packet after a reconnect silently), so that the listener sees messages  *)
(* of a guild the store has no data for.  Calendars are registered only in *)
(* Spec: here addcalendar with all its arguments is written where it ends  *)
(* before the await.                                                       *)
(***************************************************************************)
GuildJoinsUnannounced(g) ==
    /\ pc = "listening"
    /\ g \notin live
    /\ ~MapHas(guilds, g)
    /\ live' = live \cup {g}
    /\ out' = Quiet
    /\ UNCHANGED <<pc, file, disk, pending, guilds, heap, guildIdToPrefix, inflight, probe>>

\* The prefixes members set
NewPrefixes == {<<"!">>, <<"<">>}

SetPrefixTo(p) == Join(<<S_setprefix, p>>)

\* Commands with every argument count their handlers distinguish
RouterBodies ==
    { S_ping,
      <<"b", "o", "g", "u", "s">>,
      S_prefix,
      Join(<<S_prefix, <<"x">>>>),
      Join(<<S_prefix, <<"x">>, <<"y">>>>),
      S_setprefix,
      Join(<<S_setprefix, <<"!">>, <<"x">>>>),
      S_calendars,
      Join(<<S_calendars, <<"x">>>>),
      S_addcalendar,
      Join(<<S_addcalendar, <<"u">>, <<"<", "#", "1", ">">>>>) }
    \cup {SetPrefixTo(p) : p \in NewPrefixes}

Places == GuildIds \cup {NoGuild}

\* What can follow the prefix or the mention when no command does: nothing,
\* spaces, a command after a space, and a command in capitals
BareBodies ==
    {<<>>, <<" ">>, <<" ", " ">>, <<" ">> \o S_ping, <<"P", "I", "N", "G">>}

NextRouter ==
    \/ StartUpReadSave
    \/ StartUpParseSave
    \/ StartUpReadGuilds
    \/ Delivered /\ \E g \in GuildIds : GuildJoinsUnannounced(g)
    \/ Delivered /\ \E g \in Places, body \in RouterBodies :
           OnMessage(g, UserId, Written(g, body))
    \/ Delivered /\ \E g \in Places, body \in RouterBodies :
           OnMessage(g, UserId, Mention \o body)
    \/ Delivered /\ \E g \in Places, body \in {S_ping, S_prefix} :
           OnMessage(g, UserId, NickMention \o body)
    \/ Delivered /\ \E g \in GuildIds : OnMessage(g, UserId, S_ping)
    \/ Delivered /\ \E g \in Places, body \in BareBodies :
           \/ OnMessage(g, UserId, Written(g, body))
           \/ OnMessage(g, UserId, Mention \o body)
           \/ OnMessage(g, UserId, NickMention \o body)
    \/ Delivered /\ \E g \in Places, lead \in {<<>>, Mention} :
           /\ g = NoGuild \/ ~MapHas(guilds, g)
           /\ OnMessage(g, UserId, lead \o GoodCalendar)
    \/ Delivered /\ \E g \in Places, body \in {S_ping, SetPrefixTo(<<"!">>)} :
           \/ OnMessage(g, BotId, Written(g, body))
           \/ OnMessage(g, BotId, Mention \o body)
    \/ \E i \in 1..MaxPending : WriteSettles(i, TRUE)

SpecRouter == Init /\ [][NextRouter]_vars

\* The suspended invocations whose calendar fetch has not settled
Hung(fl) == {i \in 1..Len(fl) : IsPending(fl[i].icalPromise)}

\* C19: while an addcalendar invocation is suspended on a calendar fetch
\* that has not settled, the other messages, of the same guild and of
\* others, are handled in full (reply sent, prefix changed), and the
\* suspended invocation stays suspended until its own fetch settles.
C19_HungFetchStallsOnlyItself ==
    [][Hung(inflight) # {}
       => /\ \A g \in GuildIds :
                 (/\ out'.guild = g
                  /\ out'.op \notin ResumeOps \cup {"quiet", "guildCreate"}
                  /\ MapHas(guilds, g)
                  /\ OnMessage(g, UserId, Written(g, SetPrefixBang)))
                 => /\ out'.op = "setprefix.success"
                    /\ out'.replies = <<Reply("done! New prefix is '$1'.", << <<"!">> >>)>>
                    /\ heap'[MapGet(guilds', g)].prefix = <<"!">>
                    /\ guildIdToPrefix'[g] = <<"!">>
                    /\ inflight' = inflight
          /\ \A g \in Registering :
                 (/\ out'.guild = g
                  /\ out'.op \notin ResumeOps \cup {"quiet", "guildCreate"}
                  /\ OnMessage(g, UserId, Written(g, S_calendars)))
                 => /\ out'.op \in {"calendars.success", "calendars.error.noCalendars"}
                    /\ Len(out'.replies) = 1
                    /\ inflight' = inflight
          /\ Cardinality(Hung(inflight')) < Cardinality(Hung(inflight))
             => out'.op \in ResumeOps \cup {"quiet"}]_vars

\* The prefix of a guild has been changed while an addcalendar invocation of
\* that guild waits for its calendar fetch
C19_Witness ==
    /\ out.op = "setprefix.success"
    /\ \E i \in Hung(inflight) : inflight[i].guild = out.guild

\* The positions of startUp, before the listeners are installed
StartingUp == {"readSave", "parseSave", "readGuilds", "failed"}

SnapshotIds(text) == {text.guilds[i][1] : i \in 1..Len(text.guilds)}

\* The GuildData a snapshot text holds for guild g
SnapshotData(text, g) ==
    text.guilds[CHOOSE i \in 1..Len(text.guilds) : text.guilds[i][1] = g][2]

\* C21: when startUp completes, every guild of the client's cache has data
\* in the store and a prefix in the index, a guild of the loaded snapshot
\* has exactly the prefix and the calendars of the snapshot, a guild of the
\* cache that the snapshot lacks has the default prefix and no calendar, and
\* one write of the resulting store has been issued.
C21_StartUpReconciles ==
    [][pc = "readGuilds" /\ pc' = "listening"
       => /\ \A g \in live :
                 /\ MapHas(guilds', g)
                 /\ g \in DOMAIN guildIdToPrefix'
          /\ \A g \in SnapshotIds(file) :
                 /\ MapHas(guilds', g)
                 /\ heap'[MapGet(guilds', g)] = SnapshotData(file, g)
                 /\ PrefixGet(guildIdToPrefix', g) = SnapshotData(file, g).prefix
          /\ \A g \in live \ SnapshotIds(file) :
                 /\ heap'[MapGet(guilds', g)] =
                        [id |-> g, prefix |-> DEFAULT_PREFIX, calendars |-> <<>>]
                 /\ PrefixGet(guildIdToPrefix', g) = DEFAULT_PREFIX
          /\ MapKeys(guilds') = live \cup SnapshotIds(file)
          /\ pending' = <<Stringify(guilds', heap')>>
          /\ out'.saves = 1]_vars

\* startUp has completed with a guild of the snapshot that has a calendar
\* and a guild of the cache that the snapshot lacks
C21_Witness ==
    /\ pc = "listening"
    /\ out.op = "startUp.readGuilds"
    /\ SnapshotIds(file) = {"g1"}
    /\ live = {"g1", "g2"}
    /\ Calendars(guilds, heap, "g1") # <<>>
    /\ MapHas(guilds, "g2")

\* The store and the prefix index startUp.parseSave builds from a snapshot
\* text, in a process that has just started
Loaded(text) ==
    LET store == LoadEntries(text.guilds, 1, <<>>, <<>>)
    IN  [guilds |-> store.guilds,
         heap |-> store.heap,
         prefixes |-> IndexPrefixes(store.guilds, store.heap, 1, <<>>)]

GuildView(m, h, prefixes, g) ==
    [has |-> MapHas(m, g),
     data |-> IF MapHas(m, g) THEN h[MapGet(m, g)] ELSE Null,
     prefix |-> PrefixGet(prefixes, g)]

\* C24: a step taken for guild g (a command of g, the continuation of an
\* addcalendar of g, a guildCreate for g) leaves what the store and the
\* prefix index hold for every other guild as it was, whatever is suspended
\* or has happened in the other guilds.
C24_GuildsIsolated ==
    [][\A g \in GuildIds :
          out'.guild = g
          => \A other \in GuildIds \ {g} :
                 GuildView(guilds', heap', guildIdToPrefix', other)
                     = GuildView(guilds, heap, guildIdToPrefix, other)]_vars

\* A prefix has been set in one guild while an addcalendar of another guild,
\* whose prefix a member had changed, is suspended
C24_Witness ==
    /\ out.op = "setprefix.success"
    /\ out.guild = "g2"
    /\ \E i \in 1..Len(inflight) : inflight[i].guild = "g1"
    /\ GuildView(guilds, heap, guildIdToPrefix, "g1").prefix = <<"!">>
    /\ GuildView(guilds, heap, guildIdToPrefix, "g2").prefix = <<"!">>

(***************************************************************************)
(* Claims about the router and the handlers, checked under SpecRouter.     *)
(***************************************************************************)
\* The prefix of the data the store holds for guild g
StoredPrefix(g) == heap[MapGet(guilds, g)].prefix

\* C13: after a setprefix command with one argument p has succeeded in guild
\* g, the data of g and the prefix index both hold p; and whenever they hold
\* p, a prefix command written with p is answered with p and a message that
\* starts with p is accepted and handled as the command behind p.
C13_SetPrefixTakesEffect ==
    /\ [](out.op = "setprefix.success"
          => /\ StoredPrefix(out.guild) = out.replies[1].args[1]
             /\ guildIdToPrefix[out.guild] = out.replies[1].args[1])
    /\ [][\A g \in GuildIds :
              MapHas(guilds, g)
              => /\ OnMessage(g, UserId, StoredPrefix(g) \o S_prefix)
                    => /\ out'.op = "prefix.success"
                       /\ out'.replies =
                              <<Reply("the current prefix is '$1'", <<StoredPrefix(g)>>)>>
                 /\ OnMessage(g, UserId, StoredPrefix(g) \o S_ping)
                    => out'.op = "ping"]_vars

\* After setprefix <, a ping written with < has been answered
C13_Witness ==
    /\ out.op = "ping"
    /\ out.guild \in GuildIds
    /\ MapHas(guilds, out.guild)
    /\ StoredPrefix(out.guild) = <<"<">>
    /\ guildIdToPrefix[out.guild] = <<"<">>

\* C14: a message that starts with a mention of the bot, plain or nickname
\* form, followed by a command is handled as that command, in a guild
\* whatever its prefix and in a direct message; a message that starts with
\* the prefix is handled as the command behind the prefix.
C14_MentionDropped ==
    [][\A g \in Places :
           /\ \A lead \in {Mention, NickMention} :
                  OnMessage(g, UserId, lead \o S_ping) => out'.op = "ping"
           /\ (g = NoGuild \/ g \in DOMAIN guildIdToPrefix)
              => (OnMessage(g, UserId, Written(g, S_ping)) => out'.op = "ping")]_vars

\* C15: a message whose author is the bot is never handed to handleCommand,
\* whatever the prefix (the empty one of direct messages too) and whether
\* its content starts with the prefix or with a mention of the bot: it is
\* dropped, nothing is replied and nothing changes.
C15_OwnMessagesIgnored ==
    [][/\ out'.op # "message.ignored"
          => \A g \in Places, body \in {S_ping, SetPrefixTo(<<"!">>)} :
                 /\ ~OnMessage(g, BotId, Written(g, body))
                 /\ ~OnMessage(g, BotId, Mention \o body)
       /\ out'.op = "message.ignored"
          => /\ out'.replies = <<>>
             /\ out'.saves = 0
             /\ UNCHANGED <<pc, pending, guilds, heap, guildIdToPrefix, inflight>>]_vars

\* A direct message has been dropped: every content starts with the empty
\* prefix, so it was one of the bot's own
C15_Witness == out.op = "message.ignored" /\ out.guild = NoGuild

InternalErrors ==
    {Reply("internal error.", <<>>),
     Reply("there was an internal error executing your command.", <<>>)}

\* C16: setprefix with one argument and addcalendar with all its arguments,
\* written in a guild the store has no data for, are answered with an
\* internal-error reply; store and prefix index stay as they are (no data is
\* created), no write is issued, and the listener goes on handling messages.
C16_MissingDataReported ==
    [][/\ \A g \in GuildIds :
              ~MapHas(guilds, g)
              => /\ \A p \in NewPrefixes :
                        OnMessage(g, UserId, Mention \o SetPrefixTo(p))
                        => out'.op = "setPrefix.error.internal"
                 /\ OnMessage(g, UserId, Mention \o GoodCalendar)
                    => out'.op = "addcalendar.error.internal"
       /\ out'.op \in {"setPrefix.error.internal", "addcalendar.error.internal"}
          => /\ Len(out'.replies) = 1
             /\ out'.replies[1] \in InternalErrors
             /\ out'.saves = 0
             /\ pc' = "listening"
             /\ UNCHANGED <<pending, guilds, heap, guildIdToPrefix, inflight>>]_vars

\* setprefix in a guild the store has no data for has been answered with
\* the internal error
C16_Witness ==
    /\ out.op = "setPrefix.error.internal"
    /\ out.guild \in live
    /\ ~MapHas(guilds, out.guild)
    /\ out.guild \notin DOMAIN guildIdToPrefix
    /\ pc = "listening"

GuildOnlyOps ==
    {"prefix.error.guild", "setprefix.error.guild", "calendars.error.guild",
     "addcalendar.error.guild"}

\* The commands that need a guild, with their argument counts
GuildCommandBodies ==
    {body \in RouterBodies \cup {GoodCalendar} :
        Split(body)[1] \in {S_prefix, S_setprefix, S_calendars, S_addcalendar}}

\* C17: prefix, setprefix, calendars and addcalendar written in a direct
\* message are each answered, whatever their arguments, with one reply, the
\* same text for all four, and change nothing and save nothing.
C17_GuildOnlyReply ==
    [][/\ \A body \in GuildCommandBodies :
              OnMessage(NoGuild, UserId, body)
              => /\ out'.op \in GuildOnlyOps
                 /\ Len(out'.replies) = 1
                 /\ out'.saves = 0
                 /\ UNCHANGED <<pending, guilds, heap, guildIdToPrefix, inflight>>
       /\ (out.op \in GuildOnlyOps /\ out'.op \in GuildOnlyOps)
          => out'.replies = out.replies]_vars

\* The usage reply a command with a wrong number of arguments is answered
\* with, {} when the number is right
UsageOps(tokens) ==
    IF tokens[1] = S_prefix /\ Len(tokens) > 1
    THEN {"prefix.error.oneExtraArg", "prefix.error.extraArgs"}
    ELSE IF tokens[1] = S_setprefix /\ Len(tokens) # 2
    THEN {"setprefix.error.usage"}
    ELSE IF tokens[1] = S_calendars /\ Len(tokens) > 1
    THEN {"calendars.error.usage"}
    ELSE IF tokens[1] = S_addcalendar /\ Len(tokens) < 4
    THEN {"addcalendar.error.usage"}
    ELSE {}

\* C18: prefix, setprefix, calendars and addcalendar written in a guild with
\* a wrong number of arguments are answered with the usage reply of that
\* command, which shows the prefix the guild has when the command is handled,
\* and the store stays as it is.
C18_UsageShowsCurrentPrefix ==
    [][\A g \in DOMAIN guildIdToPrefix, body \in RouterBodies :
           (UsageOps(Split(body)) # {} /\ OnMessage(g, UserId, Written(g, body)))
           => /\ out'.op \in UsageOps(Split(body))
              /\ Len(out'.replies) = 1
              /\ out'.replies[1].args # <<>>
              /\ \A k \in 1..Len(out'.replies[1].args) :
                     out'.replies[1].args[k] = guildIdToPrefix[g]
              /\ out'.saves = 0
              /\ UNCHANGED <<pending, guilds, heap, guildIdToPrefix, inflight>>]_vars

\* After setprefix <, calendars with an argument has been answered with the
\* usage that shows <
C18_Witness ==
    /\ out.op = "calendars.error.usage"
    /\ out.replies[1].args = << <<"<">> >>
    /\ guildIdToPrefix[out.guild] = <<"<">>

\* The names handleCommand's switch has a case for
Commands == {S_ping, S_prefix, S_setprefix, S_calendars, S_addcalendar}

\* The contents members write in place g
Contents(g) ==
    {lead \o body : lead \in {Written(g, <<>>), Mention, NickMention},
                    body \in RouterBodies \cup BareBodies}

\* Those with no command, an unknown one, or ping in either case
BareContents(g) ==
    {lead \o body : lead \in {Written(g, <<>>), Mention, NickMention},
                    body \in BareBodies \cup {S_ping, <<"b", "o", "g", "u", "s">>}}

\* msg.content passes the listener's prefix-or-mention test and the
\* listener gets as far as calling handleCommand
Passes(g, content) ==
    LET prefix == IF g = NoGuild THEN <<>> ELSE PrefixGet(guildIdToPrefix, g)
    IN  /\ \/ StartsWith(content, prefix)
           \/ StartsWith(content, Mention)
           \/ StartsWith(content, NickMention)
        /\ ~(StartsWith(content, prefix) /\ prefix = Undefined)

\* The token list handleCommand is called with for content written in g
Passed(g, content) ==
    LET prefix == IF g = NoGuild THEN <<>> ELSE PrefixGet(guildIdToPrefix, g)
    IN  CommandTokens(content, prefix, StartsWith(content, prefix))

\* C27: every content that passes the listener's test gives handleCommand
\* at least one token (the prefix alone, a mention followed by nothing, an
\* empty direct message and runs of spaces included), handleCommand never
\* fails on its first token, and it replies 'invalid command!' exactly when
\* the lowercased first token, empty or not, is none of its commands.
C27_TokensNeverEmpty ==
    /\ [](\A g \in live \cup {NoGuild} : \A content \in Contents(g) :
              Passes(g, content) => Len(Passed(g, content)) >= 1)
    /\ [][/\ out'.op # "handleCommand.error.typeError"
          /\ out'.op = "error.invalid"
             => /\ out'.replies = <<Reply("invalid command!", <<>>)>>
                /\ pc' = "listening"
          /\ \A g \in Places :
                 pc = "listening" /\ out'.guild = g /\ out'.op # "quiet"
                 => \A content \in BareContents(g) :
                        ~(/\ Passes(g, content)
                          /\ (ToLowerCase(Passed(g, content)[1]) \notin Commands)
                                 # (out'.op = "error.invalid")
                          /\ OnMessage(g, UserId, content))]_vars

\* A direct message whose first token is not a command has been answered
C27_Witness ==
    /\ pc = "listening"
    /\ out.op = "error.invalid"
    /\ out.guild = NoGuild
    /\ out.replies = <<Reply("invalid command!", <<>>)>>

(***************************************************************************)
(* SpecPersist: saveData under writes that fail.  The bot starts as in     *)
(* Spec; guilds join and leave and members change and read prefixes while  *)
(* earlier writes are still pending, and a pending write succeeds or       *)
(* fails.  fs.writeFile calls on one file are not ordered: the pending     *)
(* writes settle in any order.                                             *)
(***************************************************************************)
NextPersist ==
    \/ StartUpReadSave
    \/ StartUpParseSave
    \/ StartUpReadGuilds
    \/ \E g \in GuildIds : GuildCreate(g)
    \/ \E g \in GuildIds : GuildDelete(g)
    \/ \E g \in GuildIds : OnMessage(g, UserId, Written(g, SetPrefixBang))
    \/ \E g \in GuildIds : OnMessage(g, UserId, Written(g, S_prefix))
    \/ \E i \in 1..MaxPending, ok \in BOOLEAN : WriteSettles(i, ok)

SpecPersist == Init /\ [][NextPersist]_vars

(***************************************************************************)
(* Claims about saveData, checked under SpecPersist.                       *)
(***************************************************************************)
\* C22: a write that fails is only logged: the store and the prefix index
\* keep what the command wrote, the write is not issued again, and the
\* listeners stay installed; the reply of setprefix is sent while its write
\* is still pending, so it is the same whether the write succeeds or fails;
\* and a setprefix or prefix command is handled in full whatever happened to
\* the writes before it.
C22_WriteFailureIsOnlyLogged ==
    [][/\ out'.op = "saveData.error.write"
          => /\ guilds' = guilds /\ heap' = heap /\ guildIdToPrefix' = guildIdToPrefix
             /\ \E i \in 1..Len(pending) : pending' = RemoveAt(pending, i)
             /\ pc' = pc
             /\ out'.replies = <<>>
       /\ out'.op = "setprefix.success"
          => /\ out'.replies =
                    <<Reply("done! New prefix is '$1'.",
                            <<PrefixGet(guildIdToPrefix', out'.guild)>>)>>
             /\ pending' = Append(pending, Stringify(guilds', heap'))
       /\ \A g \in GuildIds :
              (/\ out'.guild = g
               /\ OnMessage(g, UserId, Written(g, SetPrefixBang)))
              => /\ out'.op = "setprefix.success"
                 /\ heap'[MapGet(guilds', g)].prefix = <<"!">>
                 /\ guildIdToPrefix'[g] = <<"!">>
       /\ \A g \in GuildIds :
              (/\ out'.guild = g
               /\ OnMessage(g, UserId, Written(g, S_prefix)))
              => /\ out'.op = "prefix.success"
                 /\ out'.replies = <<Reply("the current prefix is '$1'",
                                           <<guildIdToPrefix[g]>>)>>]_vars

\* The write of a setprefix has failed: the store holds the new prefix and
\* the file does not, and no write is pending
C22_Witness ==
    /\ out.op = "saveData.error.write"
    /\ pending = <<>>
    /\ disk.kind = "json"
    /\ disk # Stringify(guilds, heap)
    /\ \E g \in GuildIds :
           /\ MapHas(guilds, g)
           /\ heap[MapGet(guilds, g)].prefix = <<"!">>
           /\ guildIdToPrefix[g] = <<"!">>
           /\ g \in SnapshotIds(disk)
           /\ SnapshotData(disk, g).prefix = DEFAULT_PREFIX

(***************************************************************************)
(* SpecOverlap: as SpecPersist, but every write succeeds.  Here every      *)
(* change of the store is made by a handler that calls saveData in the     *)
(* same run, so no change of the store is ever later than the last write   *)
(* issued.                                                                 *)
(***************************************************************************)
NextOverlap ==
    \/ StartUpReadSave
    \/ StartUpParseSave
    \/ StartUpReadGuilds
    \/ \E g \in GuildIds : GuildCreate(g)
    \/ \E g \in GuildIds : GuildDelete(g)
    \/ \E g \in GuildIds : OnMessage(g, UserId, Written(g, SetPrefixBang))
    \/ \E g \in GuildIds : OnMessage(g, UserId, Written(g, S_prefix))
    \/ \E i \in 1..MaxPending : WriteSettles(i, TRUE)

SpecOverlap == Init /\ [][NextOverlap]_vars

\* C25: once every write issued has succeeded, and the store has not
\* changed since the last of them was issued, the file holds the text of the
\* store, also when writes overlapped.
C25_FileFollowsStore ==
    pc = "listening" /\ pending = <<>> => disk = Stringify(guilds, heap)

(***************************************************************************)
(* SpecTwoInFlight: two addcalendar invocations of one guild suspended at  *)
(* the same time.  The bot has started without a snapshot file as a member *)
(* of g1, and two members have sent addcalendar, for the same calendar or  *)
(* for two, before any promise settled.  The promises then settle in any   *)
(* order, the prefix is changed and the calendars are listed meanwhile,    *)
(* and the bot leaves and rejoins the guild.                               *)
(***************************************************************************)
OtherCalendar ==
    Join(<<S_addcalendar, <<"v">>, <<"<", "#", "1", ">">>, <<"<", "@", "&", "1", ">">>>>)

\* The number of invocations suspended together
Together == 2

InitTwoInFlight ==
    /\ pc = "listening"
    /\ file = EMPTY_SAVE_DATA
    /\ guilds = <<<<"g1", 1>>>>
    /\ heap = <<defaultGuildData("g1")>>
    /\ guildIdToPrefix = ("g1" :> DEFAULT_PREFIX)
    /\ disk = Stringify(guilds, heap)
    /\ pending = <<>>
    /\ live = {"g1"}
    /\ \E first \in {GoodCalendar}, second \in {GoodCalendar, OtherCalendar} :
           inflight = <<Invocation(Split(first), "g1", 1), Invocation(Split(second), "g1", 1)>>
    /\ out = Out("addcalendar.await", "g1", <<>>, 0)
    /\ probe = NoProbe

NextTwoInFlight ==
    \/ Delivered /\ \E i \in 1..Together, roles \in RoleCatalogs, fetchOk \in BOOLEAN,
                       channels \in ChannelCatalogs :
           ParseRoleSettles(i, roles, fetchOk, channels)
    \/ Delivered /\ \E i \in 1..Together, ok \in BOOLEAN, channels \in ChannelCatalogs :
           IcalSettles(i, ok, channels)
    \/ Delivered /\ GuildDelete("g1")
    \/ Delivered /\ GuildCreate("g1")
    \/ Delivered /\ OnMessage("g1", UserId, Written("g1", SetPrefixBang))
    \/ Delivered /\ OnMessage("g1", UserId, Written("g1", S_calendars))
    \/ \E i \in 1..MaxPending : WriteSettles(i, TRUE)

SpecTwoInFlight == InitTwoInFlight /\ [][NextTwoInFlight]_vars

\* The calendar URLs of the suspended invocations, in their order
Urls(fl) == [i \in 1..Len(fl) |-> fl[i].calUrl]

\* C26: when an addcalendar invocation of a guild resumes with all three
\* results good, and the guild has not rejoined since the suspended
\* invocations began (they all hold the GuildData the store has), the
\* guild's calendar list afterwards is the list before with the registration
\* of that invocation added at the end: the registrations of two
\* invocations are both kept, in the order of resumption, also when they are
\* equal.
C26_BothRegistrationsKept ==
    [][/\ out'.op = "addcalendar.registered"
       /\ \A i \in 1..Len(inflight) :
              inflight[i].guild = out'.guild
              => inflight[i].guildData = MapGet(guilds, out'.guild)
       => \E i \in 1..Len(inflight) :
              /\ inflight[i].guild = out'.guild
              /\ Urls(inflight') = Urls(RemoveAt(inflight, i))
              /\ Calendars(guilds', heap', out'.guild) =
                     Append(Calendars(guilds, heap, out'.guild),
                            Registration(inflight[i].calUrl, out'.settled[1].value,
                                         out'.settled[3]))]_vars

\* Two invocations for the same calendar have both resumed and the list
\* holds the registration twice
C26_Witness ==
    /\ out.op = "addcalendar.registered"
    /\ inflight = <<>>
    /\ Len(Calendars(guilds, heap, "g1")) = 2
    /\ Calendars(guilds, heap, "g1")[1] = Calendars(guilds, heap, "g1")[2]

(***************************************************************************)
(* SpecResolvers: parseRole and parseTextChannel applied to identifiers    *)
(* and catalogs drawn from the sets below.                                 *)
(***************************************************************************)
ProbeIds == {<<"1">>, <<"2">>, <<"7">>, <<"1", "2">>}

ProbeNames == {<<"M">>, <<"g">>, <<"m">>}

ProbeIdentifiers ==
    {lead \o core \o close :
        lead \in {<<>>, <<"<", "@", "&">>, <<"<", "#">>, <<"<", "@">>},
        core \in ProbeIds \cup ProbeNames \cup {<<>>, <<"M", " ", "g">>},
        close \in {<<>>, <<">">>, <<"x">>}}

ProbeRoleCatalogs ==
    { <<>>,
      <<"1">> :> <<"M">>,
      (<<"1">> :> <<"M">>) @@ (<<"2">> :> <<"1", "2">>),
      (<<"1">> :> <<"2">>) @@ (<<"2">> :> <<"M">>),
      (<<"1", "2">> :> <<"M", " ", "g">>) @@ (<<"2">> :> <<"M">>) }

ProbeChannelCatalogs ==
    { <<>>,
      <<"1">> :> [name |-> <<"g">>, type |-> "text"],
      (<<"1">> :> [name |-> <<"g">>, type |-> "text"])
          @@ (<<"2">> :> [name |-> <<"g">>, type |-> "text"]),
      (<<"1">> :> [name |-> <<"g">>, type |-> "voice"])
          @@ (<<"1", "2">> :> [name |-> <<"M">>, type |-> "category"]),
      (<<"1">> :> [name |-> <<"2">>, type |-> "text"])
          @@ (<<"2">> :> [name |-> <<"g">>, type |-> "voice"]) }

InitResolvers ==
    /\ pc = "resolvers"
    /\ file = EMPTY_SAVE_DATA
    /\ disk = EMPTY_SAVE_DATA
    /\ pending = <<>>
    /\ guilds = <<>>
    /\ heap = <<>>
    /\ guildIdToPrefix = <<>>
    /\ live = {}
    /\ inflight = <<>>
    /\ out = Quiet
    /\ probe \in [fn : {"none"}, identifier : ProbeIdentifiers, roles : ProbeRoleCatalogs,
                  channels : ProbeChannelCatalogs, fetchOk : BOOLEAN,
                  result : {NotSettled}]

CallParseRole ==
    /\ probe.fn = "none"
    /\ probe' = [probe EXCEPT !.fn = "parseRole",
                              !.result = parseRole(probe.identifier, probe.roles, probe.fetchOk)]
    /\ UNCHANGED <<pc, file, disk, pending, guilds, heap, guildIdToPrefix, live, inflight, out>>

CallParseTextChannel ==
    /\ probe.fn = "none"
    /\ probe' = [probe EXCEPT !.fn = "parseTextChannel",
                              !.result = [status |-> "returned",
                                          value |-> parseTextChannel(probe.identifier,
                                                                     probe.channels)]]
    /\ UNCHANGED <<pc, file, disk, pending, guilds, heap, guildIdToPrefix, live, inflight, out>>

NextResolvers == CallParseRole \/ CallParseTextChannel

SpecResolvers == InitResolvers /\ [][NextResolvers]_vars

(***************************************************************************)
(* Claims about the resolvers, checked under SpecResolvers.                *)
(***************************************************************************)
RoleMention(id) == <<"<", "@", "&">> \o id \o <<">">>

IsRoleMention(identifier) == StartsWith(identifier, <<"<", "@", "&">>)

RolesNamed(roles, name) == {id \in DOMAIN roles : roles[id] = name}

\* C8: an identifier that is no mention and no numeric id of an existing
\* role, but is exactly the display name of a role of the catalog, resolves
\* to the id of a role of that name (catalog {"1": "M"}, identifier "M"
\* gives "1").
C8_NameResolves ==
    (/\ probe.fn = "parseRole"
     /\ probe.fetchOk
     /\ ~IsRoleMention(probe.identifier)
     /\ ~(IsAllDigits(probe.identifier) /\ probe.identifier \in DOMAIN probe.roles)
     /\ RolesNamed(probe.roles, probe.identifier) # {})
    => /\ probe.result.status = "fulfilled"
       /\ probe.result.value \in RolesNamed(probe.roles, probe.identifier)

\* C9: parseRole never returns an id that is not in the catalog: the mention
\* of an id of the catalog returns that id, the mention of an id that is not
\* in the catalog returns null, and an identifier that is no mention, no
\* numeric id of the catalog and no role name returns null.
C9_OnlyCatalogIds ==
    (probe.fn = "parseRole" /\ probe.result.status = "fulfilled")
    => /\ probe.result.value \in (DOMAIN probe.roles) \cup {Null}
       /\ \A id \in ProbeIds :
              probe.identifier = RoleMention(id)
              => probe.result.value = IF id \in DOMAIN probe.roles THEN id ELSE Null
       /\ (/\ ~IsRoleMention(probe.identifier)
           /\ ~(IsAllDigits(probe.identifier) /\ probe.identifier \in DOMAIN probe.roles)
           /\ RolesNamed(probe.roles, probe.identifier) = {})
          => probe.result.value = Null

\* The mention of a role that does not exist has been resolved to null, and
\* the mention of one that exists to its id
C9_Witness ==
    /\ probe.fn = "parseRole"
    /\ probe.result.status = "fulfilled"
    /\ probe.roles = (<<"1">> :> <<"M">>) @@ (<<"2">> :> <<"1", "2">>)
    /\ \/ probe.identifier = RoleMention(<<"7">>) /\ probe.result.value = Null
       \/ probe.identifier = RoleMention(<<"2">>) /\ probe.result.value = <<"2">>

ChannelsNamed(channels, name) == {id \in DOMAIN channels : channels[id].name = name}

\* A channel mention as parseTextChannel reads it: '<#', the id, and one
\* closing character
IsChannelMentionOf(identifier, id) ==
    /\ Len(identifier) = Len(id) + 3
    /\ SubSeq(identifier, 1, Len(id) + 2) = <<"<", "#">> \o id

====
